---- MODULE Spec2Model ----
(***************************************************************************)
(* USX splitter (usx_splitter.py, cli.py): a single USX document is split  *)
(* into per-chunk documents following a table of contents.                 *)
(*                                                                         *)
(* Elements are records.  An element's identity (the Python object) is its *)
(* id: the i-th top-level element of the loaded document has id 10*i, its  *)
(* j-th child has id 10*i+j, and every element created during the run has  *)
(* a negative id.  Text and tail are sequences of tokens: 0, 1, 2, ... are  *)
(* the indentation strings "\n" + level*"  " written by _indent_xml, 9 is a *)
(* whitespace-only string of the source, and 100+id is the (non-blank)      *)
(* text that belongs to the element id.  None is the empty sequence (the    *)
(* parser never yields an empty string, and the code never assigns one).    *)
(***************************************************************************)
EXTENDS Integers, Sequences, FiniteSets, TLC

VARIABLES
    usx_content,      \* self.usx_content: the top-level elements of the source
    loaded,           \* the source as it was right after load_usx
    toc_data,         \* self.toc_data: the TOC entries
    book_code,        \* args.book_code of the command line
    entry,            \* position of run()'s loop in toc_data
    files,            \* the output directory: path -> document written
    next_id,          \* number of elements created so far
    chapter_num,      \* argument of the last extract_chapter_content call
    chapter_content,  \* its result: positions in usx_content
    verse_range,      \* <<start_verse, end_verse>> of the last chunk extraction
    chunk_content     \* result of the last extract_verses_for_chunk call

vars == <<usx_content, loaded, toc_data, book_code, entry, files, next_id,
          chapter_num, chapter_content, verse_range, chunk_content>>

-----------------------------------------------------------------------------
(* Bounds of the model *)

\* longest source document (top-level elements)
MaxNodes == 3
\* longest table of contents
MaxToc == 2
\* most children of a generated paragraph
MaxChildren == 2
\* most paragraphs of a generated chapter
MaxParas == 2

-----------------------------------------------------------------------------
(* Values *)

\* element.get(name) of an attribute the element does not carry
NoAttr == "None"

\* None as text or tail
NoText == <<>>

\* a whitespace-only string of the source document
SrcSpace == <<9>>

\* the non-blank text that belongs to the element id
Word(id) == <<100 + id>>

\* str.strip() leaves nothing: the text is None or whitespace only
Blank(t) == \A k \in 1..Len(t) : t[k] < 10

\* str(n) for a small number n
Str(n) == <<"0", "1", "2", "3", "4", "5", "6", "7", "8", "9">>[n + 1]

\* int(s) for the text of a small number
ParseInt(s) == CHOOSE n \in 0..9 : Str(n) = s

\* f"{n:02d}"
Fmt02(n) == "0" \o Str(n)

\* truth value of an attribute value: neither None nor the empty string
Truthy(a) == a # NoAttr /\ a # ""

Element(id, tag) ==
    [id |-> id, tag |-> tag, number |-> NoAttr, eid |-> NoAttr, style |-> NoAttr,
     code |-> NoAttr, text |-> NoText, tail |-> NoText, children |-> <<>>]

\* the positions of a sequence, as a sequence
Positions(s) == [k \in 1..Len(s) |-> k]

\* all sequences over S of length lo..hi
SeqsOf(S, lo, hi) == UNION {[1..n -> S] : n \in lo..hi}

-----------------------------------------------------------------------------
(* extract_chapter_content *)

RECURSIVE scan_chapter(_, _, _, _, _)
\* the loop of extract_chapter_content from position k on; acc is
\* chapter_content and inside is in_target_chapter
scan_chapter(doc, num, k, inside, acc) ==
    IF k > Len(doc) THEN acc
    ELSE LET element == doc[k] IN
         IF element.tag = "chapter" THEN
              IF element.number = Str(num) /\ element.eid = NoAttr
                THEN scan_chapter(doc, num, k + 1, TRUE, Append(acc, k))
              ELSE IF element.number # Str(num) /\ inside
                THEN acc
              ELSE IF element.eid # NoAttr /\ inside
                THEN Append(acc, k)
              ELSE scan_chapter(doc, num, k + 1, inside, acc)
         ELSE IF inside
           THEN scan_chapter(doc, num, k + 1, inside, Append(acc, k))
         ELSE scan_chapter(doc, num, k + 1, inside, acc)

extract_chapter_content(doc, num) == scan_chapter(doc, num, 1, FALSE, <<>>)

-----------------------------------------------------------------------------
(* extract_verses_from_para, extract_verses_for_chunk, extract_title_content *)

RECURSIVE Flatten(_)
\* the concatenation of a sequence of sequences
Flatten(ss) == IF Len(ss) = 0 THEN <<>> ELSE Head(ss) \o Flatten(Tail(ss))

\* int(child.get('number', 0))
verse_num(child) == IF child.number = NoAttr THEN 0 ELSE ParseInt(child.number)

\* in_range with the lower end of the range left out
in_range_open(child, start_verse, end_verse) ==
    start_verse < verse_num(child) /\ verse_num(child) <= end_verse

\* start_verse <= verse_num <= end_verse
in_range(child, start_verse, end_verse) ==
    start_verse <= verse_num(child) /\ verse_num(child) <= end_verse

has_verses_in_range(para_element, start_verse, end_verse) ==
    \E k \in 1..Len(para_element.children) :
        /\ para_element.children[k].tag = "verse"
        /\ in_range(para_element.children[k], start_verse, end_verse)

\* the children the second loop appends to para_copy
appended(child, start_verse, end_verse) ==
    IF child.tag = "verse" THEN in_range(child, start_verse, end_verse) ELSE TRUE

\* the result is <<>> for None and <<para_copy>> otherwise; id is the identity
\* of the element ET.Element creates
extract_verses_from_para(para_element, start_verse, end_verse, id) ==
    IF ~has_verses_in_range(para_element, start_verse, end_verse) THEN <<>>
    ELSE LET kept == SelectSeq(para_element.children,
                               LAMBDA c : appended(c, start_verse, end_verse))
             current_text == para_element.text
                             \o Flatten([k \in 1..Len(kept) |-> kept[k].tail])
             para_copy == [Element(id, para_element.tag) EXCEPT
                             !.number = para_element.number,
                             !.eid = para_element.eid,
                             !.style = para_element.style,
                             !.code = para_element.code,
                             !.children = kept,
                             !.text = IF ~Blank(current_text) THEN current_text
                                      ELSE NoText]
         IN IF Len(para_copy.children) > 0 \/ ~Blank(para_copy.text)
              THEN <<para_copy>> ELSE <<>>

\* truth value of the result of extract_verses_from_para: None is false, and
\* an Element is true when it has children
element_truth(r) == Len(r) > 0 /\ Len(r[1].children) > 0

\* content: positions in doc; the element created for content[k] gets the
\* identity -(base + k)
extract_verses_for_chunk(doc, content, start_verse, end_verse, base) ==
    Flatten([k \in 1..Len(content) |->
        LET element == doc[content[k]] IN
        IF element.tag = "para" THEN
             LET verses_in_para == extract_verses_from_para(
                                       element, start_verse, end_verse, -(base + k))
             IN IF element_truth(verses_in_para) THEN verses_in_para ELSE <<>>
        ELSE IF element.tag = "chapter" /\ element.eid = NoAttr THEN <<element>>
        ELSE <<>>])

TitleStyles == {"s1", "s2", "s3", "mt1", "mt2", "mt3"}

extract_title_content(doc, content) ==
    Flatten([k \in 1..Len(content) |->
        LET element == doc[content[k]] IN
        IF element.tag = "para" /\ element.style \in TitleStyles THEN <<element>>
        ELSE IF element.tag = "chapter" /\ element.eid = NoAttr THEN <<element>>
        ELSE <<>>])

-----------------------------------------------------------------------------
(* _indent_xml and the writing of a document *)

\* "\n" + level * "  "
indent(level) == <<level>>

RECURSIVE indent_xml(_, _)
indent_xml(elem, level) ==
    IF Len(elem.children) > 0 THEN
        LET n == Len(elem.children)
            kids == [k \in 1..n |-> indent_xml(elem.children[k], level + 1)]
        IN [elem EXCEPT
              !.text = IF Blank(@) THEN indent(level + 1) ELSE @,
              !.tail = IF Blank(@) THEN indent(level) ELSE @,
              !.children = [kids EXCEPT
                              ![n].tail = IF Blank(@) THEN indent(level) ELSE @]]
    ELSE IF level > 0 /\ Blank(elem.tail) THEN [elem EXCEPT !.tail = indent(level)]
    ELSE elem

\* every element of the trees nodes, children included
all_elements(nodes) ==
    nodes \o Flatten([k \in 1..Len(nodes) |-> nodes[k].children])

\* usx_root.append(element) puts the element object itself in the output
\* tree: what _indent_xml assigns to an element of the output is assigned to
\* the source element of the same identity
write_through(doc, nodes) ==
    LET F == all_elements(nodes)
        cur(e) == LET hits == {k \in 1..Len(F) : F[k].id = e.id} IN
                  IF hits = {} THEN e
                  ELSE LET f == F[CHOOSE k \in hits : TRUE]
                       IN [e EXCEPT !.text = f.text, !.tail = f.tail]
    IN [i \in 1..Len(doc) |->
          [cur(doc[i]) EXCEPT
             !.children = [j \in 1..Len(doc[i].children) |->
                              cur(doc[i].children[j])]]]

\* tree.write(path): the top-level elements of the document on disk
write_file(fs, path, nodes) ==
    [p \in DOMAIN fs \cup {path} |-> IF p = path THEN nodes ELSE fs[p]]

-----------------------------------------------------------------------------
(* create_chunk_file, process_chapter, process_front_matter *)

\* The mutable state the methods work on:
\*   [usx, files, next_id, verse_range, chunk_content]

\* the book title text of book_info (non-blank)
BookTitle == <<99>>

\* has_chapter_end without the test of the end-id
has_chapter_end_any_marker(content) ==
    \E k \in 1..Len(content) : content[k].tag = "chapter"

has_chapter_end(content) ==
    \E k \in 1..Len(content) :
        content[k].tag = "chapter" /\ Truthy(content[k].eid)

\* book_info_wanted without the test of is_title
book_info_always(is_title) == TRUE

\* book information is added to the chunks that are no title chunks
book_info_wanted(is_title) == ~is_title

create_chunk_file(st, num, chunk, content, is_title) ==
    LET base == st.next_id
        book_info == [Element(-(base + 2), "book") EXCEPT
                         !.code = "REV", !.style = "id", !.text = BookTitle]
        chapter_end == [Element(-(base + 3), "chapter") EXCEPT
                           !.eid = "REV " \o Str(num)]
        kids == (IF book_info_wanted(is_title) THEN <<book_info>> ELSE <<>>)
                \o content
                \o (IF ~is_title /\ ~has_chapter_end(content)
                      THEN <<chapter_end>> ELSE <<>>)
        usx_root == indent_xml(
                        [Element(-(base + 1), "usx") EXCEPT !.children = kids], 0)
        path == [dir |-> Fmt02(num),
                 name |-> IF is_title THEN "title.usx" ELSE Fmt02(chunk) \o ".usx"]
    IN [st EXCEPT !.usx = write_through(@, usx_root.children),
                  !.files = write_file(@, path, usx_root.children),
                  !.next_id = base + 3]

RECURSIVE chunk_loop(_, _, _, _)
\* the loop of process_chapter over info.chunks from position i on
chunk_loop(st, info, content, i) ==
    IF i > Len(info.chunks) THEN st
    ELSE LET chunk == info.chunks[i] IN
         IF chunk.title THEN
              LET title_content == extract_title_content(st.usx, content)
              IN chunk_loop(
                     create_chunk_file(st, info.chapter, 0, title_content, TRUE),
                     info, content, i + 1)
         ELSE LET chunk_num == chunk.verse
                  cc == extract_verses_for_chunk(
                            st.usx, content, chunk_num, chunk_num, st.next_id)
                  st1 == [st EXCEPT !.next_id = @ + Len(content),
                                    !.verse_range = <<chunk_num, chunk_num>>,
                                    !.chunk_content = cc]
              IN chunk_loop(
                     create_chunk_file(st1, info.chapter, chunk_num, cc, FALSE),
                     info, content, i + 1)

\* process_chapter without the return on an empty chapter content
process_chapter_unguarded(st, info) ==
    chunk_loop(st, info, extract_chapter_content(st.usx, info.chapter), 1)

process_chapter(st, info) ==
    LET content == extract_chapter_content(st.usx, info.chapter) IN
    IF Len(content) = 0 THEN st ELSE chunk_loop(st, info, content, 1)

FrontStyles == {"h", "toc1", "toc2", "toc3", "mt1", "mt2", "mt3"}

\* the elements process_front_matter keeps
front_matter(element) ==
    element.tag \in {"book", "para"} /\ element.style \in FrontStyles

RECURSIVE front_loop(_, _, _)
\* the loop of process_front_matter from position k on
front_loop(doc, k, acc) ==
    IF k > Len(doc) THEN acc
    ELSE IF front_matter(doc[k]) THEN front_loop(doc, k + 1, Append(acc, doc[k]))
    ELSE IF doc[k].tag = "chapter" THEN acc
    ELSE front_loop(doc, k + 1, acc)

FrontPath == [dir |-> "front", name |-> "title.usx"]

process_front_matter(st) ==
    LET front_content == front_loop(st.usx, 1, <<>>) IN
    IF Len(front_content) = 0 THEN st
    ELSE LET usx_root == indent_xml(
                 [Element(-(st.next_id + 1), "usx") EXCEPT
                     !.children = front_content], 0)
         IN [st EXCEPT !.usx = write_through(@, usx_root.children),
                       !.files = write_file(@, FrontPath, usx_root.children),
                       !.next_id = @ + 1]

-----------------------------------------------------------------------------
(* Inputs: source documents and tables of contents *)

\* kinds of text: None, whitespace only, non-blank
text_of(kind, id) ==
    CASE kind = "none" -> NoText
      [] kind = "space" -> SrcSpace
      [] OTHER -> Word(id)

Tpl(tag, number, eid, style, code, text, tail, children) ==
    [tag |-> tag, number |-> number, eid |-> eid, style |-> style, code |-> code,
     text |-> text, tail |-> tail, children |-> children]

Verse(number, tail) ==
    Tpl("verse", number, NoAttr, "v", NoAttr, "none", tail, <<>>)
Note(tail) == Tpl("note", NoAttr, NoAttr, "f", NoAttr, "none", tail, <<>>)
Para(style, text, children) ==
    Tpl("para", NoAttr, NoAttr, style, NoAttr, text, "space", children)
Book(style) == Tpl("book", NoAttr, NoAttr, style, "REV", "word", "none", <<>>)
Chapter(number, eid) == Tpl("chapter", number, eid, "c", NoAttr, "none", "none", <<>>)

\* the element of identity id parsed from a template
parsed(tpl, id) ==
    [id |-> id, tag |-> tpl.tag, number |-> tpl.number, eid |-> tpl.eid,
     style |-> tpl.style, code |-> tpl.code,
     text |-> text_of(tpl.text, id), tail |-> text_of(tpl.tail, id),
     children |-> [j \in 1..Len(tpl.children) |->
                      [id |-> id + j, tag |-> tpl.children[j].tag,
                       number |-> tpl.children[j].number,
                       eid |-> tpl.children[j].eid,
                       style |-> tpl.children[j].style,
                       code |-> tpl.children[j].code,
                       text |-> NoText,
                       tail |-> text_of(tpl.children[j].tail, id + j),
                       children |-> <<>>]]]

\* load_usx: the top-level elements of the parsed document
load_usx(tpls) == [i \in 1..Len(tpls) |-> parsed(tpls[i], 10 * i)]

VersePara == Para("p", "word", <<Verse("1", "word"), Note("word"), Verse("2", "none")>>)

\* top-level elements of the documents of a run
NodePool ==
    {Book("id"), Book("h"), Para("mt1", "word", <<>>), VersePara,
     Chapter("1", NoAttr), Chapter("2", NoAttr), Chapter(NoAttr, "REV 1")}

Title == [title |-> TRUE, verse |-> 0]
Chunk(v) == [title |-> FALSE, verse |-> v]

\* TOC entries
EntryPool ==
    {[front |-> TRUE, chapter |-> 0, chunks |-> <<>>],
     [front |-> FALSE, chapter |-> 1, chunks |-> <<Title, Chunk(2), Chunk(3)>>],
     [front |-> FALSE, chapter |-> 2, chunks |-> <<Chunk(1), Title>>]}

\* --book-code: the default and another code
BookCodes == {"REV", "GEN"}

-----------------------------------------------------------------------------
(* run(): one step per TOC entry *)

Idle ==
    /\ chapter_num = 0
    /\ chapter_content = <<>>
    /\ verse_range = <<0, 0>>
    /\ chunk_content = <<>>
    /\ files = <<>>
    /\ next_id = 0
    /\ entry = 1

Init ==
    /\ \E tpls \in SeqsOf(NodePool, 1, MaxNodes) : usx_content = load_usx(tpls)
    /\ loaded = usx_content
    /\ toc_data \in SeqsOf(EntryPool, 1, MaxToc)
    /\ book_code \in BookCodes
    /\ Idle

State ==
    [usx |-> usx_content, files |-> files, next_id |-> next_id,
     verse_range |-> verse_range, chunk_content |-> chunk_content]

Commit(st) ==
    /\ usx_content' = st.usx
    /\ files' = st.files
    /\ next_id' = st.next_id
    /\ verse_range' = st.verse_range
    /\ chunk_content' = st.chunk_content

ProcessFrontMatter ==
    /\ entry <= Len(toc_data)
    /\ toc_data[entry].front
    /\ Commit(process_front_matter(State))
    /\ entry' = entry + 1
    /\ UNCHANGED <<loaded, toc_data, book_code, chapter_num, chapter_content>>

ProcessChapter ==
    /\ entry <= Len(toc_data)
    /\ ~toc_data[entry].front
    /\ chapter_num' = toc_data[entry].chapter
    /\ chapter_content' = extract_chapter_content(usx_content, toc_data[entry].chapter)
    /\ Commit(process_chapter(State, toc_data[entry]))
    /\ entry' = entry + 1
    /\ UNCHANGED <<loaded, toc_data, book_code>>

Next == ProcessFrontMatter \/ ProcessChapter

Spec == Init /\ [][Next]_vars

\* the run is over
Done == entry > Len(toc_data)

-----------------------------------------------------------------------------
(* extract_chapter_content applied to arbitrary element sequences *)

ChapterPool ==
    {Para("p", "none", <<>>)}
    \cup {Chapter(n, e) : n \in {NoAttr, "1", "2"}, e \in {NoAttr, "REV 1"}}

InitChapter ==
    /\ \E tpls \in SeqsOf(ChapterPool, 1, MaxNodes) : usx_content = load_usx(tpls)
    /\ loaded = usx_content
    /\ toc_data = <<>>
    /\ book_code = "REV"
    /\ Idle

ExtractChapter ==
    /\ \E n \in 1..3 :
          /\ chapter_num' = n
          /\ chapter_content' = extract_chapter_content(usx_content, n)
    /\ UNCHANGED <<usx_content, loaded, toc_data, book_code, entry, files, next_id,
                   verse_range, chunk_content>>

SpecChapter == InitChapter /\ [][ExtractChapter]_vars

-----------------------------------------------------------------------------
(* extract_verses_for_chunk applied to arbitrary chapter contents *)

ChildPool == {Verse("1", "word"), Verse("2", "space"), Note("none")}

ParaPool == {Para("p", "none", kids) : kids \in SeqsOf(ChildPool, 0, MaxChildren)}

\* a paragraph of the verses 1..5, each with trailing text
FiveVerses(text) ==
    Para("p", text, <<Verse("1", "word"), Verse("2", "word"), Verse("3", "word"),
                      Verse("4", "word"), Verse("5", "word")>>)

ContentPool ==
    SeqsOf(ParaPool \cup {Chapter("1", NoAttr), Chapter(NoAttr, "REV 1")}, 1, MaxParas)
    \cup {<<FiveVerses(t)>> : t \in {"none", "space", "word"}}

InitPara ==
    /\ \E tpls \in ContentPool : usx_content = load_usx(tpls)
    /\ loaded = usx_content
    /\ toc_data = <<>>
    /\ book_code = "REV"
    /\ Idle

\* one call for each content
ExtractVerses ==
    /\ verse_range = <<0, 0>>
    /\ \E start_verse \in 1..3 : \E end_verse \in start_verse..3 :
          /\ verse_range' = <<start_verse, end_verse>>
          /\ chunk_content' = extract_verses_for_chunk(
                                  usx_content, Positions(usx_content),
                                  start_verse, end_verse, 0)
    /\ chapter_content' = Positions(usx_content)
    /\ next_id' = Len(usx_content)
    /\ UNCHANGED <<usx_content, loaded, toc_data, book_code, entry, files,
                   chapter_num>>

SpecPara == InitPara /\ [][ExtractVerses]_vars

-----------------------------------------------------------------------------
(* Properties *)

\* the start marker of chapter n
StartMarker(e, n) == e.tag = "chapter" /\ e.number = Str(n) /\ e.eid = NoAttr

\* the sequence lo, lo+1, ..., hi
Span(lo, hi) == [k \in 1..(hi - lo + 1) |-> lo + k - 1]

\* the identities of a sequence of elements
Ids(nodes) == [k \in 1..Len(nodes) |-> nodes[k].id]

\* the paths of the chunk files that are not title files
ChunkPaths == {p \in DOMAIN files : p.name # "title.usx"}

\* the paths of the chapters' title files
ChapterTitlePaths == {p \in DOMAIN files : p.name = "title.usx" /\ p.dir # "front"}

\* the positions of the chapter end markers among nodes
EndMarkers(nodes) ==
    {k \in 1..Len(nodes) : nodes[k].tag = "chapter" /\ nodes[k].eid # NoAttr}

HasBook(nodes) == \E k \in 1..Len(nodes) : nodes[k].tag = "book"

\* C1: with the start marker of the extracted chapter n first at position s,
\* extract_chapter_content returns the positions from s up to the first
\* chapter element e after s: e included when it carries an end-id (with the
\* number n or with no number attribute), e excluded when it is the start
\* marker of another chapter, and up to the end of the document when there is
\* no chapter element after s.
C1_ChapterSpan ==
    \A s \in 1..Len(usx_content) :
        ( /\ chapter_num # 0
          /\ StartMarker(usx_content[s], chapter_num)
          /\ \A k \in 1..(s - 1) : ~StartMarker(usx_content[k], chapter_num) )
        => LET later == {k \in (s + 1)..Len(usx_content) :
                            usx_content[k].tag = "chapter"}
               e == CHOOSE k \in later : \A j \in later : k <= j
           IN IF later = {} THEN chapter_content = Span(s, Len(usx_content))
              ELSE IF /\ usx_content[e].eid # NoAttr
                      /\ usx_content[e].number \in {NoAttr, Str(chapter_num)}
                THEN chapter_content = Span(s, e)
              ELSE IF /\ usx_content[e].eid = NoAttr
                      /\ usx_content[e].number \notin {NoAttr, Str(chapter_num)}
                THEN chapter_content = Span(s, e - 1)
              ELSE TRUE

\* C2: every chunk file that is not a title file holds exactly one chapter
\* end marker among its top-level elements.
C2_OneEndMarker ==
    \A p \in ChunkPaths : Cardinality(EndMarkers(files[p])) = 1

\* a chunk file with a chapter start marker and a filtered paragraph in it
C2_Witness ==
    \E p \in ChunkPaths :
        /\ \E k \in 1..Len(files[p]) : files[p][k].tag = "para"
        /\ \E k \in 1..Len(files[p]) :
              files[p][k].tag = "chapter" /\ files[p][k].eid = NoAttr

FrontBooks ==
    {k \in 1..Len(usx_content) :
        /\ usx_content[k].tag = "book"
        /\ usx_content[k].style \in FrontStyles
        /\ \A j \in 1..k : usx_content[j].tag # "chapter"}

DocIds(nodes) ==
    {nodes[k].id : k \in 1..Len(nodes)}
    \cup UNION {{nodes[k].children[j].id : j \in 1..Len(nodes[k].children)} :
                  k \in 1..Len(nodes)}

\* C4: the source tree is as it was loaded, no element of an output document is
\* an element of the source, and no two output documents share an element.
C4_SourceReadOnly ==
    /\ usx_content = loaded
    /\ \A p \in DOMAIN files : \A id \in DocIds(files[p]) : id < 0
    /\ \A p, q \in DOMAIN files : p # q => DocIds(files[p]) \cap DocIds(files[q]) = {}

\* the non-blank part of a text
NonBlank(t) == SelectSeq(t, LAMBDA tok : tok >= 10)

\* C5: for a paragraph of the verses 1..5 and the range [3, 3], the chunk is one
\* copy whose only child is the marker of verse 3 and whose text is the
\* trailing text of verse 3 and nothing else.
C5_OnlyVerseThree ==
    ( /\ Len(usx_content) = 1
      /\ Len(usx_content[1].children) = 5
      /\ verse_range = <<3, 3>> )
    => /\ Len(chunk_content) = 1
       /\ Ids(chunk_content[1].children) = <<usx_content[1].children[3].id>>
       /\ NonBlank(chunk_content[1].text) = NonBlank(usx_content[1].children[3].tail)

\* a verse marker with its number in [start, end]
VerseWithin(c, start, end) ==
    /\ c.tag = "verse"
    /\ (IF c.number = NoAttr THEN 0 ELSE ParseInt(c.number)) \in start..end

FrontProcessed == \E k \in 1..(entry - 1) : toc_data[k].front

\* the source elements before the first chapter element that are book elements
\* or paragraphs of a front-matter style
FrontExpected ==
    SelectSeq(loaded,
              LAMBDA e : /\ \A j \in 1..(e.id \div 10) : loaded[j].tag # "chapter"
                         /\ \/ e.tag = "book"
                            \/ e.tag = "para" /\ e.style \in FrontStyles)

\* C7: once the front entry is processed, front/title.usx holds exactly the
\* source elements before the first chapter element that are book elements or
\* paragraphs of a front-matter style, in document order.
C7_FrontContent ==
    FrontProcessed =>
        /\ FrontExpected # <<>> => FrontPath \in DOMAIN files
        /\ FrontPath \in DOMAIN files => Ids(files[FrontPath]) = Ids(FrontExpected)

\* C8: every chunk file of chapter c that is not a title file starts with a
\* book element of the configured book code, and its synthesized end marker
\* carries the identifier made of that code and c.
C8_ConfiguredBookCode ==
    \A p \in ChunkPaths :
        LET nodes == files[p] IN
        /\ nodes[1].tag = "book"
        /\ nodes[1].code = book_code
        /\ \A k \in EndMarkers(nodes) :
              nodes[k].id < 0 =>
                  \E c \in 1..9 : p.dir = Fmt02(c)
                                   /\ nodes[k].eid = book_code \o " " \o Str(c)

\* chapter n has no start marker in the source
Missing(n) == \A k \in 1..Len(usx_content) : ~StartMarker(usx_content[k], n)

\* the path of the file of a chunk of chapter n
PathOf(n, chunk) ==
    [dir |-> Fmt02(n),
     name |-> IF chunk.title THEN "title.usx" ELSE Fmt02(chunk.verse) \o ".usx"]

\* C9: for a processed numeric entry whose chapter has no start marker the
\* extraction is empty and no file of that chapter exists, and every other
\* processed numeric entry, before or after it, has the files of its chunks.
C9_MissingChapterSkipped ==
    \A k \in 1..(entry - 1) :
        ~toc_data[k].front =>
            IF Missing(toc_data[k].chapter)
              THEN /\ k = entry - 1 => chapter_content = <<>>
                   /\ \A p \in DOMAIN files : p.dir # Fmt02(toc_data[k].chapter)
              ELSE \A i \in 1..Len(toc_data[k].chunks) :
                       PathOf(toc_data[k].chapter, toc_data[k].chunks[i])
                           \in DOMAIN files

\* a finished run that skipped an entry and wrote the files of a later one
C9_Witness ==
    /\ Done
    /\ \E k \in 1..Len(toc_data) : \E l \in (k + 1)..Len(toc_data) :
          /\ ~toc_data[k].front /\ Missing(toc_data[k].chapter)
          /\ ~toc_data[l].front /\ ~Missing(toc_data[l].chapter)
          /\ \E p \in DOMAIN files : p.dir = Fmt02(toc_data[l].chapter)

\* the content of an element read in document order: its text, then the
\* trailing text of each child
Reading(e) == e.text \o Flatten([k \in 1..Len(e.children) |-> e.children[k].tail])

\* how often the token tok occurs in the text t
Occurrences(tok, t) == Cardinality({k \in 1..Len(t) : t[k] = tok})

\* C10: in every filtered paragraph copy of a written chunk file, the non-blank
\* trailing text of each child occurs exactly once in the copy's content.
C10_TextOnce ==
    \A p \in ChunkPaths : \A k \in 1..Len(files[p]) :
        LET copy == files[p][k] IN
        (copy.tag = "para" /\ copy.id < 0) =>
            \A j \in 1..Len(copy.children) : \A i \in 1..Len(copy.children[j].tail) :
                copy.children[j].tail[i] >= 10 =>
                    Occurrences(copy.children[j].tail[i], Reading(copy)) = 1

====
